---------------------------- MODULE Spec2Model ----------------------------
(***************************************************************************)
(* Model of the countdown console (App component), its status-poll loop    *)
(* and the status-text fetcher.                                            *)
(*                                                                         *)
(* Time is counted in whole seconds.  The 1-second countdown interval and  *)
(* the 40-second poll interval are both (re)created by React effects whose *)
(* dependencies are `status` and `timeLeft` (the poll effect depends on    *)
(* fetchAIStatus, a callback re-created whenever status or timeLeft        *)
(* changes), so both intervals restart in the same commit.  pollAge is the *)
(* number of seconds since the poll interval was created or last fired.    *)
(*                                                                         *)
(* Every action models one handler or timer callback together with the     *)
(* render and effect pass React runs for the state it sets.                *)
(***************************************************************************)
EXTENDS Integers, Sequences, FiniteSets

\* ------------------------------------------------------------ bounds
\* User clicks (toggle + reset) explored in one behaviour.
MaxClicks == 3
\* Invocations of the status-text fetcher explored in one behaviour.
MaxFetches == 2
\* Runs of the scene's animate explored in one behaviour.
MaxFrames == 4
\* Window resizes explored in one behaviour.
MaxResizes == 4
\* Thousandths of an hour explored on either side of a limit of the formatter.
MaxSpread == 12

\* ------------------------------------------------- program constants
INITIAL_TIME == 5 * 60
POLL_SECONDS == 40
LOG_CAPACITY == 10

IDLE == "IDLE"
RUNNING == "RUNNING"
PAUSED == "PAUSED"
COMPLETED == "COMPLETED"
TimerStatus == {IDLE, RUNNING, PAUSED, COMPLETED}

MessageType == {"status", "warning", "alert", "info"}

PausedText == "TEMPORAL DISPLACEMENT FROZEN."
StartText == "INITIATING ALIEN LOGIC SEQUENCE."
ResetText == "CALIBRATING INTERSTELLAR COORDINATES..."
AlertText == "PHOBOS COMPLETES ONE ORBIT IN 7.65H. SESSION ELAPSED. NEXT: HALLEY'S COMET 2061."

NoKeyText == "Core connection lost."
NominalText == "Systems nominal."
OfflineText == "Offline protocol engaged."
\* What the generative-text service may answer: a sentence, or an empty text.
ServiceTexts == {"Phobos completes 0.011 orbits in this interval.", ""}
\* How one service call ends: it answers with a text, or it throws.
ServiceOutcomes == [kind : {"text"}, text : ServiceTexts]
                     \cup {[kind |-> "error", text |-> ""]}

VARIABLES
    timeLeft,       \* useState(INITIAL_TIME)
    status,         \* useState(TimerStatus.IDLE)
    messages,       \* useState<RobotMessage[]>([]), newest first
    timerRef,       \* timerRef.current: "null", "live" (id of a running interval) or "cleared"
    tickIntervals,  \* number of running 1-second intervals
    pollLive,       \* the 40-second interval exists
    pollAge,        \* seconds since the 40-second interval was created or last fired
    inflight,       \* ids of fetches awaiting the service
    mounted,        \* the App component is mounted
    now,            \* Date.now(), as the number of log insertions so far
    clicks,         \* user clicks so far
    fetchCalls,     \* invocations of getRoboticStatus so far
    netCalls,       \* calls to the generative-text service so far
    ticks,          \* tick callbacks since the last reset
    toggles,        \* toggles since the last reset
    alerts,         \* alert entries appended since the last reset
    tickedRun,      \* consecutive ticked seconds with status RUNNING and no fetch invoked
    lastPoll,       \* what the current poll interval's latest firing did: "none", "skipped", "fetched"
    quiet,          \* seconds since status or timeLeft last changed, up to POLL_SECONDS
    pendingFrames,  \* ids of the animation-frame requests the browser holds
    animId,         \* the id held in the mount effect's animId
    frames,         \* runs of animate so far
    resizeListener, \* onResize is registered on window
    rendererLive,   \* the renderer is not disposed and its canvas is attached
    viewport,       \* the container size last given to renderer.setSize
    resizes,        \* runs of onResize so far
    isRunningRef,   \* isRunningRef.current
    t,              \* the mount effect's t, a binary64 number
    rotationY,      \* orbitPivots[i].rotation.y of each body, binary64 numbers
    fmtInput,       \* an orbital period handed to formatOrbitalPeriod, in thousandths of an hour
    fmtOutput       \* what formatOrbitalPeriod returned for it

timerVars == <<timeLeft, status, timerRef, tickIntervals>>
pollVars == <<pollLive, pollAge, inflight, fetchCalls, netCalls>>
histVars == <<clicks, ticks, toggles, alerts, tickedRun, lastPoll>>
appVars == <<timeLeft, status, messages, timerRef, tickIntervals, pollLive, pollAge,
             inflight, mounted, now, clicks, fetchCalls, netCalls, ticks, toggles,
             alerts, tickedRun, lastPoll, quiet, isRunningRef>>
sceneVars == <<pendingFrames, animId, frames, resizeListener, rendererLive, viewport,
               resizes, t, rotationY>>
calcVars == <<fmtInput, fmtOutput>>
vars == <<appVars, sceneVars, calcVars>>

Min(a, b) == IF a < b THEN a ELSE b

\* ------------------------------------------------------------ the log
Prefix(s, n) == SubSeq(s, 1, Min(n, Len(s)))

Message(text, type, ts) == [text |-> text, type |-> type, timestamp |-> ts]

\* A log insertion that never evicts.
addMessageUnbounded(msgs, text, type, ts) == <<Message(text, type, ts)>> \o msgs

\* A log insertion at the wrong end.
addMessageAtEnd(msgs, text, type, ts) ==
    Prefix(msgs \o <<Message(text, type, ts)>>, LOG_CAPACITY)

\* setMessages(prev => [newMessage, ...prev].slice(0, 10))
addMessage(msgs, text, type, ts) ==
    Prefix(<<Message(text, type, ts)>> \o msgs, LOG_CAPACITY)

\* --------------------------------------------------- the timer effect
Timer(ref, n) == [ref |-> ref, n |-> n]

\* A cleanup that leaves the interval running.
ClearTimerNever(tm) == tm

\* if (timerRef.current) clearInterval(timerRef.current)
ClearTimer(tm) == IF tm.ref = "live" THEN Timer("cleared", tm.n - 1) ELSE tm

\* An effect body that starts the interval whatever the status.
TimerEffectBodyAlways(tm, st, tl) ==
    IF tl > 0 THEN Timer("live", tm.n + 1) ELSE ClearTimer(tm)

\* An effect body that does not look at the seconds remaining.
TimerEffectBodyAtZero(tm, st, tl) ==
    IF st = RUNNING THEN Timer("live", tm.n + 1) ELSE ClearTimer(tm)

\* An effect body that never starts the interval.
TimerEffectBodyNever(tm, st, tl) == ClearTimer(tm)

\* The effect body: start the 1-second interval, or clear the one held.
TimerEffectBody(tm, st, tl) ==
    IF st = RUNNING /\ tl > 0 THEN Timer("live", tm.n + 1) ELSE ClearTimer(tm)

\* The dependencies [status, timeLeft] of both effects changed in this render.
DepsChanged(st, tl, st2, tl2) == st # st2 \/ tl # tl2

\* The commit after a render: cleanup of the previous effect, then its body.
TimerCommit(tm, st, tl, st2, tl2) ==
    IF DepsChanged(st, tl, st2, tl2) THEN TimerEffectBody(ClearTimer(tm), st2, tl2)
    ELSE tm

\* A poll interval that no commit restarts.
PollCommitNever(age, st, tl, st2, tl2) == age

\* The poll effect: clearInterval(interval), then a new 40-second interval.
PollCommit(age, st, tl, st2, tl2) ==
    IF DepsChanged(st, tl, st2, tl2) THEN 0 ELSE age

\* ------------------------------------------------- orbital periods
\* A number of hours, in thousandths of an hour.
Hours(h) == h * 1000

\* num / den rounded to the nearest integer, as toFixed rounds the last digit.
Round(num, den) == (2 * num + den) \div (2 * den)

\* orbitalPeriodHours of the CELESTIAL_BODIES, in thousandths of an hour.
OrbitalPeriods == {7654, 11957, 42459, 85228, 655720, 2111280}

NoOutput == [value |-> 0, unit |-> ""]

\* A formatter whose two limits belong to the smaller unit.
formatOrbitalPeriodInclusive(mh) ==
    IF mh <= Hours(24) THEN [value |-> Round(mh, 10), unit |-> "h"]
    ELSE IF mh <= Hours(24 * 365) THEN [value |-> Round(mh, 10 * 24), unit |-> "d"]
    ELSE [value |-> Round(mh, 10 * ((24 * 36525) \div 100)), unit |-> "yr"]

\* formatOrbitalPeriod: the number printed, in hundredths, and the unit
\* after it. hours, hours / 24 and hours / (24 * 365.25) with two decimals.
formatOrbitalPeriod(mh) ==
    IF mh < Hours(24) THEN [value |-> Round(mh, 10), unit |-> "h"]
    ELSE IF mh < Hours(24 * 365) THEN [value |-> Round(mh, 10 * 24), unit |-> "d"]
    ELSE [value |-> Round(mh, 10 * ((24 * 36525) \div 100)), unit |-> "yr"]

\* The periods of the table and those next to the two limits.
PeriodInputs ==
    OrbitalPeriods
        \cup ((Hours(24) - MaxSpread)..(Hours(24) + MaxSpread))
        \cup ((Hours(24 * 365) - MaxSpread)..(Hours(24 * 365) + MaxSpread))

\* Nothing has been formatted; the period shown first is the first body's.
InitCalc ==
    /\ fmtInput = 7654
    /\ fmtOutput = NoOutput

\* --------------------------------------------- binary64 arithmetic
\* The scene computes with JavaScript numbers: IEEE 754 binary64, every
\* operation rounded to nearest, ties to even. A natural number is held as
\* its digits to the base 2^LimbBits, lowest first, the highest not 0; a
\* binary64 value as a significand m of SignificandBits bits and an exponent
\* e, standing for m * 2^e (m empty: 0). Only values above 0 and far from
\* overflow and underflow occur.
SignificandBits == 53
LimbBits == 14
Limb == 2^LimbBits

RECURSIVE TrimTop(_)
TrimTop(a) ==
    IF a = <<>> \/ a[Len(a)] # 0 THEN a ELSE TrimTop(SubSeq(a, 1, Len(a) - 1))

At(a, i) == IF i \in 1..Len(a) THEN a[i] ELSE 0
Small(d) == IF d = 0 THEN <<>> ELSE <<d>>

\* The digits of the number whose i-th column holds cols[i], carries moved up.
RECURSIVE Carried(_, _, _)
Carried(cols, i, c) ==
    IF i > Len(cols)
    THEN (IF c = 0 THEN <<>> ELSE <<c % Limb>> \o Carried(cols, i, c \div Limb))
    ELSE <<(cols[i] + c) % Limb>> \o Carried(cols, i + 1, (cols[i] + c) \div Limb)

NatAdd(a, b) ==
    LET n == IF Len(a) < Len(b) THEN Len(b) ELSE Len(a)
    IN TrimTop(Carried([i \in 1..n |-> At(a, i) + At(b, i)], 1, 0))

\* a - b for a >= b.
RECURSIVE Borrowed(_, _, _, _)
Borrowed(a, b, i, br) ==
    IF i > Len(a) THEN <<>>
    ELSE LET d == a[i] - At(b, i) - br
         IN <<d % Limb>> \o Borrowed(a, b, i + 1, IF d < 0 THEN 1 ELSE 0)

NatSub(a, b) == TrimTop(Borrowed(a, b, 1, 0))

RECURSIVE LessFrom(_, _, _)
LessFrom(a, b, i) ==
    IF i = 0 THEN FALSE
    ELSE IF a[i] # b[i] THEN a[i] < b[i]
    ELSE LessFrom(a, b, i - 1)

NatLess(a, b) ==
    IF Len(a) # Len(b) THEN Len(a) < Len(b) ELSE LessFrom(a, b, Len(a))

RECURSIVE Column(_, _, _, _)
Column(a, b, i, j) ==
    IF j > Len(a) THEN 0 ELSE a[j] * At(b, i + 1 - j) + Column(a, b, i, j + 1)

NatMul(a, b) ==
    IF a = <<>> \/ b = <<>> THEN <<>>
    ELSE TrimTop(Carried([i \in 1..(Len(a) + Len(b)) |-> Column(a, b, i, 1)], 1, 0))

BitLength(a) ==
    IF a = <<>> THEN 0
    ELSE LimbBits * (Len(a) - 1)
           + CHOOSE k \in 1..LimbBits : a[Len(a)] \in (2^(k - 1))..(2^k - 1)

\* Bit k of a, the lowest being bit 1.
BitAt(a, k) == (At(a, ((k - 1) \div LimbBits) + 1) \div 2^((k - 1) % LimbBits)) % 2

ShiftLeftBits(a, s) ==
    IF a = <<>> THEN <<>>
    ELSE [i \in 1..(s \div LimbBits) |-> 0] \o NatMul(a, <<2^(s % LimbBits)>>)

ShiftRightBits(a, s) ==
    LET r == s % LimbBits
        hi == SubSeq(a, (s \div LimbBits) + 1, Len(a))
    IN TrimTop([i \in 1..Len(hi) |->
                   (hi[i] \div 2^r) + (At(hi, i + 1) % 2^r) * 2^(LimbBits - r)])

\* The largest d in lo..hi with d * b <= r.
RECURSIVE Digit(_, _, _, _)
Digit(r, b, lo, hi) ==
    IF lo = hi THEN lo
    ELSE LET mid == (lo + hi + 1) \div 2
         IN IF NatLess(r, NatMul(b, Small(mid)))
            THEN Digit(r, b, lo, mid - 1)
            ELSE Digit(r, b, mid, hi)

\* Long division of a by b # 0 from digit i of a down: r is the remainder
\* so far, q the digits of the quotient found, lowest first.
RECURSIVE DivFrom(_, _, _, _, _)
DivFrom(a, b, i, r, q) ==
    IF i = 0 THEN [quot |-> TrimTop(q), rem |-> r]
    ELSE LET r2 == TrimTop(<<a[i]>> \o r)
             d == Digit(r2, b, 0, Limb - 1)
         IN IF NatLess(r2, b) THEN DivFrom(a, b, i - 1, r2, <<0>> \o q)
            ELSE DivFrom(a, b, i - 1, NatSub(r2, NatMul(b, Small(d))), <<d>> \o q)

NatDivMod(a, b) == DivFrom(a, b, Len(a), <<>>, <<>>)

RECURSIVE NatOf(_)
NatOf(n) == IF n = 0 THEN <<>> ELSE <<n % Limb>> \o NatOf(n \div Limb)

Binary64(m, e) == [m |-> m, e |-> e]
F64Zero == Binary64(<<>>, 0)

\* The rounding of n * 2^e to binary64 loses nothing.
ExactInBinary64(n) ==
    \A k \in 1..(BitLength(n) - SignificandBits) : BitAt(n, k) = 0

\* n * 2^e rounded to binary64: to nearest, ties to even.
RoundToBinary64(n, e) ==
    LET s == BitLength(n) - SignificandBits
    IN IF n = <<>> THEN F64Zero
       ELSE IF s <= 0 THEN Binary64(ShiftLeftBits(n, -s), e + s)
       ELSE LET q == ShiftRightBits(n, s)
                up == /\ BitAt(n, s) = 1
                      /\ \/ BitAt(q, 1) = 1
                         \/ \E k \in 1..(s - 1) : BitAt(n, k) = 1
                q2 == IF up THEN NatAdd(q, <<1>>) ELSE q
            IN IF BitLength(q2) > SignificandBits
               THEN Binary64(ShiftRightBits(q2, 1), e + s + 1)
               ELSE Binary64(q2, e + s)

\* x + y before rounding: the number n * 2^e.
ExactSum(x, y) ==
    LET e == IF x.e < y.e THEN x.e ELSE y.e
    IN [n |-> NatAdd(ShiftLeftBits(x.m, x.e - e), ShiftLeftBits(y.m, y.e - e)),
        e |-> e]

F64Add(x, y) ==
    IF x.m = <<>> THEN y
    ELSE IF y.m = <<>> THEN x
    ELSE RoundToBinary64(ExactSum(x, y).n, ExactSum(x, y).e)

F64Mul(x, y) == RoundToBinary64(NatMul(x.m, y.m), x.e + y.e)

\* x / y for y # 0: the quotient to well over two bits more than the
\* significand, a last bit telling whether a remainder is left, rounded.
F64Div(x, y) ==
    IF x.m = <<>> THEN F64Zero
    ELSE LET k == 5
             d == NatDivMod([i \in 1..k |-> 0] \o x.m, y.m)
         IN RoundToBinary64(
               NatAdd(ShiftLeftBits(d.quot, 1), IF d.rem = <<>> THEN <<>> ELSE <<1>>),
               x.e - y.e - k * LimbBits - 1)

F64Less(x, y) ==
    IF x.m = <<>> THEN y.m # <<>>
    ELSE IF y.m = <<>> THEN FALSE
    ELSE IF x.e # y.e THEN x.e < y.e
    ELSE NatLess(x.m, y.m)

\* The number an integer literal denotes.
F64OfInt(n) == RoundToBinary64(NatOf(n), 0)

\* The number the decimal literal num / den denotes: the nearest binary64.
F64Literal(num, den) == F64Div(F64OfInt(num), F64OfInt(den))

\* ---------------------------------------------------------- the scene
ContainerSizes == {"small", "medium", "large"}

ANIMATION_SPEED_RUNNING == F64Literal(4, 1000)
ANIMATION_SPEED_IDLE == F64Literal(8, 10000)
ORBITAL_SPEED_SCALE == F64OfInt(260)

\* orbitalPeriodHours of the entries of CELESTIAL_BODIES, in the table's order.
CELESTIAL_BODIES ==
    <<F64Literal(7654, 1000), F64Literal(11957, 1000), F64Literal(42459, 1000),
      F64Literal(85228, 1000), F64Literal(65572, 100), F64Literal(211128, 100)>>

\* A speed that grows with the period.
OrbitalSpeedByPeriod(period) == F64Mul(period, ORBITAL_SPEED_SCALE)

\* const speed = (1 / body.orbitalPeriodHours) * ORBITAL_SPEED_SCALE
OrbitalSpeed(period) == F64Mul(F64Div(F64OfInt(1), period), ORBITAL_SPEED_SCALE)

\* The speed animate computes for each body; it is the same on every frame.
Speeds == [i \in DOMAIN CELESTIAL_BODIES |-> OrbitalSpeed(CELESTIAL_BODIES[i])]

\* A frame that takes the flag as it was when the loop started.
FrameDeltaAtLoopStart(flag) == ANIMATION_SPEED_IDLE

\* const dt = isRunningRef.current ? ANIMATION_SPEED_RUNNING : ANIMATION_SPEED_IDLE
FrameDelta(flag) == IF flag THEN ANIMATION_SPEED_RUNNING ELSE ANIMATION_SPEED_IDLE

\* A body turned by the idle step whatever the frame's step is.
AngularStepIdleOnly(i, dt) == F64Mul(Speeds[i], ANIMATION_SPEED_IDLE)

\* speed * dt
AngularStep(i, dt) == F64Mul(Speeds[i], dt)

\* One run of animate on the accumulator and on the pivots.
Advanced(clock, dt) == F64Add(clock, dt)
Rotated(rot, dt) == [i \in DOMAIN rot |-> F64Add(rot[i], AngularStep(i, dt))]

\* useEffect(() => { isRunningRef.current = isRunning }, [isRunning]), where
\* the App passes isRunning = (status === RUNNING): run in the commit that
\* changes the status.
FlagCommit(ref, st2) == (st2 = RUNNING)

\* The scene after its mount effect: the pivots are created unrotated, t is
\* 0, and animate() has run once, with the flag of an idle timer, and
\* requested the next frame; onResize is registered, the canvas is attached.
InitScene ==
    /\ pendingFrames = {1}
    /\ animId = 1
    /\ frames = 1
    /\ resizeListener = TRUE
    /\ rendererLive = TRUE
    /\ viewport = "medium"
    /\ resizes = 0
    /\ isRunningRef = FALSE
    /\ t = Advanced(F64Zero, FrameDelta(FALSE))
    /\ rotationY = Rotated([i \in DOMAIN CELESTIAL_BODIES |-> F64Zero], FrameDelta(FALSE))

\* A loop that keeps the id of its first request only.
StoreAnimIdFirst(prev, id) == prev

\* animId = requestAnimationFrame(animate): each run stores the new id.
StoreAnimId(prev, id) == id

\* cancelAnimationFrame(id)
cancelAnimationFrame(pending, id) == pending \ {id}

\* The browser runs the frame callback of request `id`: animate requests the
\* next frame, stores its id in animId, advances t and every pivot by this
\* frame's step, and renders.
Animate(id) ==
    /\ id \in pendingFrames
    /\ frames < MaxFrames
    /\ frames' = frames + 1
    /\ pendingFrames' = (pendingFrames \ {id}) \cup {frames + 1}
    /\ animId' = StoreAnimId(animId, frames + 1)
    /\ t' = Advanced(t, FrameDelta(isRunningRef))
    /\ rotationY' = Rotated(rotationY, FrameDelta(isRunningRef))
    /\ UNCHANGED <<appVars, resizeListener, rendererLive, viewport, resizes, calcVars>>

\* The window is resized and the registered onResize runs.
Resize(size) ==
    /\ resizeListener
    /\ resizes < MaxResizes
    /\ viewport' = size
    /\ resizes' = resizes + 1
    /\ UNCHANGED <<appVars, pendingFrames, animId, frames, resizeListener,
                   rendererLive, t, rotationY, calcVars>>

\* The cleanup of the mount effect.
SceneCleanup ==
    /\ pendingFrames' = cancelAnimationFrame(pendingFrames, animId)
    /\ resizeListener' = FALSE
    /\ rendererLive' = FALSE
    /\ UNCHANGED <<animId, frames, viewport, resizes, t, rotationY>>

\* A period is formatted for display.
Format ==
    /\ fmtOutput = NoOutput
    /\ fmtOutput' = formatOrbitalPeriod(fmtInput)
    /\ UNCHANGED <<appVars, sceneVars, fmtInput>>

\* -------------------------------------------------------- the App view
InitApp ==
    /\ timeLeft = INITIAL_TIME
    /\ status = IDLE
    /\ messages = <<>>
    /\ timerRef = "null"
    /\ tickIntervals = 0
    /\ pollLive = TRUE
    /\ pollAge = 0
    /\ inflight = {}
    /\ mounted = TRUE
    /\ now = 0
    /\ clicks = 0
    /\ fetchCalls = 0
    /\ netCalls = 0
    /\ ticks = 0
    /\ toggles = 0
    /\ alerts = 0
    /\ tickedRun = 0
    /\ lastPoll = "none"
    /\ quiet = 0

Init == InitApp /\ InitScene /\ InitCalc

\* State set by a handler, then the commit of both effects.
Commit(st2, tl2) ==
    LET tm == TimerCommit(Timer(timerRef, tickIntervals), status, timeLeft, st2, tl2)
    IN /\ status' = st2
       /\ timeLeft' = tl2
       /\ timerRef' = tm.ref
       /\ tickIntervals' = tm.n
       /\ pollAge' = PollCommit(pollAge, status, timeLeft, st2, tl2)
       /\ quiet' = IF st2 = status /\ tl2 = timeLeft THEN quiet ELSE 0
       /\ isRunningRef' = FlagCommit(isRunningRef, st2)

\* A toggle that never pauses.
ToggleTargetNoPause(st) == RUNNING

ToggleTarget(st) == IF st = RUNNING THEN PAUSED ELSE RUNNING

\* A toggle that starts the countdown over.
ToggleTimeRestart(tl) == INITIAL_TIME

\* toggleTimer calls setStatus and addMessage only: timeLeft is as it was.
ToggleTime(tl) == tl

toggleTimer ==
    /\ mounted
    /\ clicks < MaxClicks
    /\ Commit(ToggleTarget(status), ToggleTime(timeLeft))
    /\ messages' = IF status = RUNNING
                   THEN addMessage(messages, PausedText, "warning", now + 1)
                   ELSE addMessage(messages, StartText, "info", now + 1)
    /\ now' = now + 1
    /\ clicks' = clicks + 1
    /\ toggles' = toggles + 1
    /\ tickedRun' = 0
    /\ lastPoll' = "none"
    /\ UNCHANGED <<pollLive, inflight, mounted, fetchCalls, netCalls, ticks, alerts,
                   sceneVars, calcVars>>

\* A reset that keeps the seconds remaining.
ResetTimeKeep(tl) == tl

ResetTime(tl) == INITIAL_TIME

resetTimer ==
    /\ mounted
    /\ clicks < MaxClicks
    /\ Commit(IDLE, ResetTime(timeLeft))
    /\ messages' = addMessage(messages, ResetText, "info", now + 1)
    /\ now' = now + 1
    /\ clicks' = clicks + 1
    /\ ticks' = 0
    /\ toggles' = 0
    /\ alerts' = 0
    /\ tickedRun' = 0
    /\ lastPoll' = "none"
    /\ UNCHANGED <<pollLive, inflight, mounted, fetchCalls, netCalls, sceneVars,
                   calcVars>>

\* ------------------------------------------------ the 1-second tick
\* An updater with no clamp at 0.
TickTimeNoClamp(prev) == prev - 1

\* The updater of setTimeLeft: prev <= 1 gives 0, otherwise prev - 1.
TickTime(prev) == IF prev <= 1 THEN 0 ELSE prev - 1

\* An updater that completes one tick late.
TickCompletesLate(prev) == prev <= 0

\* The updater calls setStatus(COMPLETED) and addMessage(alert) when prev <= 1.
TickCompletes(prev) == prev <= 1

\* One second passes and the interval callback runs.
Tick ==
    /\ mounted
    /\ tickIntervals > 0
    /\ Commit(IF TickCompletes(timeLeft) THEN COMPLETED ELSE status, TickTime(timeLeft))
    /\ messages' = IF TickCompletes(timeLeft)
                   THEN addMessage(messages, AlertText, "alert", now + 1)
                   ELSE messages
    /\ now' = IF TickCompletes(timeLeft) THEN now + 1 ELSE now
    /\ alerts' = IF TickCompletes(timeLeft) THEN alerts + 1 ELSE alerts
    /\ ticks' = ticks + 1
    /\ tickedRun' = IF status = RUNNING /\ ~TickCompletes(timeLeft)
                    THEN Min(tickedRun + 1, POLL_SECONDS + 1)
                    ELSE 0
    /\ lastPoll' = "none"
    /\ UNCHANGED <<pollLive, inflight, mounted, clicks, fetchCalls, netCalls, toggles,
                   sceneVars, calcVars>>

\* One second passes with no countdown interval running: only the poll
\* interval ages.
PassSecond ==
    /\ mounted
    /\ pollLive
    /\ tickIntervals = 0
    /\ pollAge < POLL_SECONDS
    /\ pollAge' = pollAge + 1
    /\ quiet' = Min(quiet + 1, POLL_SECONDS)
    /\ UNCHANGED <<timerVars, messages, pollLive, inflight, mounted, now,
                   fetchCalls, netCalls, histVars, isRunningRef, sceneVars, calcVars>>

\* ------------------------------------------------- the status fetcher
Resolved(text) == [settled |-> "resolved", text |-> text]
Rejected == [settled |-> "rejected", text |-> ""]

\* A fetcher without the try/catch around the service call.
getRoboticStatusNoCatch(key, outcome) ==
    IF ~key THEN Resolved(NoKeyText)
    ELSE IF outcome.kind = "error" THEN Rejected
    ELSE Resolved(IF outcome.text # "" THEN outcome.text ELSE NominalText)

\* getRoboticStatus: what the returned promise settles with, given whether
\* process.env.API_KEY is set and how the service call ends.
getRoboticStatus(key, outcome) ==
    IF ~key THEN Resolved(NoKeyText)
    ELSE IF outcome.kind = "error" THEN Resolved(OfflineText)
    ELSE Resolved(IF outcome.text # "" THEN outcome.text ELSE NominalText)

\* A fetch that abandons the requests still in flight.
StartFetchReplace(fl, id) == {id}

\* fetchAIStatus awaits its own call and neither looks at nor cancels an
\* earlier one: the new request joins those in flight.
StartFetch(fl, id) == fl \cup {id}

\* A fetcher that calls the service whether or not a credential is set.
CallsServiceAlways(key) == TRUE

\* if (!apiKey) return "Core connection lost." comes before the service call.
CallsService(key) == key

\* A poll callback that fetches whatever the status.
ShouldFetchAlways(st) == TRUE

\* if (status === TimerStatus.RUNNING) in the interval callback and in fetchAIStatus
ShouldFetch(st) == st = RUNNING

\* The 40-second interval fires.  With no API key the fetcher returns at
\* once and the awaiting fetchAIStatus appends in the same turn of the event
\* loop; otherwise the service is called and the fetch stays in flight.
PollFire(key) ==
    /\ mounted
    /\ pollLive
    /\ pollAge = POLL_SECONDS
    /\ pollAge' = 0
    /\ lastPoll' = IF ShouldFetch(status) THEN "fetched" ELSE "skipped"
    /\ IF ShouldFetch(status)
       THEN /\ fetchCalls < MaxFetches
            /\ fetchCalls' = fetchCalls + 1
            /\ tickedRun' = 0
            /\ IF CallsService(key)
               THEN /\ netCalls' = netCalls + 1
                    /\ inflight' = StartFetch(inflight, fetchCalls + 1)
                    /\ UNCHANGED <<messages, now>>
               ELSE /\ messages' = addMessage(messages,
                                       getRoboticStatus(key, [kind |-> "error", text |-> ""]).text,
                                       "status", now + 1)
                    /\ now' = now + 1
                    /\ UNCHANGED <<netCalls, inflight>>
       ELSE UNCHANGED <<fetchCalls, tickedRun, netCalls, inflight, messages, now>>
    /\ UNCHANGED <<timerVars, pollLive, mounted, clicks, ticks, toggles, alerts,
                   quiet, isRunningRef, sceneVars, calcVars>>

\* A state update that is applied to a view already torn down.
SetStateAppliesAlways(isMounted) == TRUE

\* setMessages is called with no guard of its own; React applies a state
\* update only while the component is mounted and drops it afterwards.
SetStateApplies(isMounted) == isMounted

\* A completion that stops the countdown when the service call failed.
FetchCompletePausesOnError(id, outcome) ==
    /\ id \in inflight
    /\ inflight' = inflight \ {id}
    /\ messages' = addMessage(messages, getRoboticStatus(TRUE, outcome).text,
                              "status", now + 1)
    /\ now' = now + 1
    /\ status' = IF outcome.kind = "error" THEN PAUSED ELSE status
    /\ UNCHANGED <<timeLeft, timerRef, tickIntervals, pollLive, pollAge, mounted,
                   fetchCalls, netCalls, histVars, quiet, isRunningRef, sceneVars, calcVars>>

\* A completion that looks at the status again before it logs.
FetchCompleteRechecksStatus(id, outcome) ==
    /\ id \in inflight
    /\ inflight' = inflight \ {id}
    /\ LET r == getRoboticStatus(TRUE, outcome)
       IN IF SetStateApplies(mounted) /\ r.settled = "resolved" /\ status = RUNNING
          THEN /\ messages' = addMessage(messages, r.text, "status", now + 1)
               /\ now' = now + 1
          ELSE UNCHANGED <<messages, now>>
    /\ UNCHANGED <<timerVars, pollLive, pollAge, mounted, fetchCalls, netCalls,
                   histVars, quiet, isRunningRef, sceneVars, calcVars>>

\* The service call of fetch `id` ends with `outcome`; fetchAIStatus resumes
\* and calls addMessage(msg, 'status').
FetchComplete(id, outcome) ==
    /\ id \in inflight
    /\ inflight' = inflight \ {id}
    /\ LET r == getRoboticStatus(TRUE, outcome)
       IN IF SetStateApplies(mounted) /\ r.settled = "resolved"
          THEN /\ messages' = addMessage(messages, r.text, "status", now + 1)
               /\ now' = now + 1
          ELSE UNCHANGED <<messages, now>>
    /\ UNCHANGED <<timerVars, pollLive, pollAge, mounted, fetchCalls, netCalls,
                   histVars, quiet, isRunningRef, sceneVars, calcVars>>

\* The view is torn down: the cleanups of both App effects and of the
\* scene's mount effect run.
Unmount ==
    /\ mounted
    /\ mounted' = FALSE
    /\ LET tm == ClearTimer(Timer(timerRef, tickIntervals))
       IN /\ timerRef' = tm.ref
          /\ tickIntervals' = tm.n
    /\ pollLive' = FALSE
    /\ SceneCleanup
    /\ UNCHANGED <<timeLeft, status, messages, pollAge, inflight, now,
                   fetchCalls, netCalls, histVars, quiet, isRunningRef, calcVars>>

Next ==
    \/ toggleTimer
    \/ resetTimer
    \/ Tick
    \/ PassSecond
    \/ \E key \in BOOLEAN : PollFire(key)
    \/ \E id \in inflight, outcome \in ServiceOutcomes : FetchComplete(id, outcome)
    \/ Unmount

Spec == Init /\ [][Next]_vars

\* The browser keeps firing a running interval: a tick that stays due happens.
SpecFair == Spec /\ WF_vars(Tick)

\* The scene alone: frames and resizes, up to the teardown.
NextScene ==
    \/ \E id \in pendingFrames : Animate(id)
    \/ \E size \in ContainerSizes : Resize(size)
    \/ Unmount

SpecScene == Init /\ [][NextScene]_vars

\* The scene under a timer that is started, paused and reset: frames and
\* clicks in any order, up to the teardown.
NextAnim ==
    \/ \E id \in pendingFrames : Animate(id)
    \/ toggleTimer
    \/ resetTimer
    \/ Unmount

SpecAnim == Init /\ [][NextAnim]_vars

\* The formatter applied to one period out of PeriodInputs.
InitFormat ==
    /\ InitApp
    /\ InitScene
    /\ fmtInput \in PeriodInputs
    /\ fmtOutput = NoOutput

SpecFormat == InitFormat /\ [][Format]_vars

\* ResetsBefore reset clicks on the fresh view, one after the other: the log
\* holds that many reset entries, newest first, and nothing else has changed.
ResetsBefore == LOG_CAPACITY - 1

InitLog ==
    /\ timeLeft = INITIAL_TIME
    /\ status = IDLE
    /\ messages = [i \in 1..ResetsBefore |->
                      Message(ResetText, "info", ResetsBefore + 1 - i)]
    /\ timerRef = "null"
    /\ tickIntervals = 0
    /\ pollLive = TRUE
    /\ pollAge = 0
    /\ inflight = {}
    /\ mounted = TRUE
    /\ now = ResetsBefore
    /\ clicks = 0
    /\ fetchCalls = 0
    /\ netCalls = 0
    /\ ticks = 0
    /\ toggles = 0
    /\ alerts = 0
    /\ tickedRun = 0
    /\ lastPoll = "none"
    /\ quiet = 0
    /\ InitScene
    /\ InitCalc

\* The same view, explored from a log that is one entry short of full.
SpecLog == InitLog /\ [][Next]_vars

\* ===================================================== properties
\* This step put one entry of the given type at the front of the log, kept
\* the entries held before behind it in their order, and dropped at most the
\* last one, only when the log was full.
Appended(type) ==
    /\ Len(messages') = Min(Len(messages) + 1, LOG_CAPACITY)
    /\ messages'[1].type = type
    /\ messages'[1].timestamp = now'
    /\ \A i \in 2..Len(messages') : messages'[i] = messages[i - 1]

\* C1: from a freshly reset timer set Running by one toggle, with no other
\* toggle or reset, after n ticks secondsRemaining is 300 - n; the status is
\* Running for n < 300 with no Alert appended, and Completed at n = 300 with
\* exactly one Alert appended, by the 300th tick and by no earlier one.
C1_CountdownFromReset ==
    /\ [](toggles = 1 =>
             /\ ticks \in 0..INITIAL_TIME
             /\ timeLeft = INITIAL_TIME - ticks
             /\ ticks < INITIAL_TIME => status = RUNNING /\ alerts = 0
             /\ ticks = INITIAL_TIME => status = COMPLETED /\ alerts = 1)
    /\ [][toggles = 1 /\ ticks' = ticks + 1 =>
             IF ticks' = INITIAL_TIME
             THEN Appended("alert") /\ messages'[1].text = AlertText
             ELSE messages' = messages]_vars

C1_Witness ==
    /\ toggles = 1
    /\ ticks = INITIAL_TIME
    /\ status = COMPLETED
    /\ timeLeft = 0
    /\ messages[1].text = AlertText

\* C2: a reset click, in whatever state, leaves status Idle and
\* secondsRemaining 300 and appends exactly one Info entry.
C2_ResetYieldsIdle ==
    [][resetTimer =>
          /\ status' = IDLE
          /\ timeLeft' = INITIAL_TIME
          /\ Appended("info")
          /\ messages'[1].text = ResetText]_vars

\* A reset taken right after the countdown completed.
C2_Witness ==
    /\ status = IDLE
    /\ timeLeft = INITIAL_TIME
    /\ Len(messages) >= 2
    /\ messages[1].text = ResetText
    /\ messages[2].type = "alert"

\* C3: a toggle click moves Running to Paused with one Warning entry and any
\* other status to Running with one Info entry; after two toggles in a row
\* from Idle the status is Paused.
C3_Toggle ==
    /\ [][toggleTimer =>
             IF status = RUNNING
             THEN status' = PAUSED /\ Appended("warning")
             ELSE status' = RUNNING /\ Appended("info")]_vars
    /\ [](toggles = 2 /\ ticks = 0 /\ Len(messages) >= 2
             /\ messages[1].text = PausedText /\ messages[2].text = StartText
          => status = PAUSED)

C3_Witness ==
    /\ status = PAUSED
    /\ toggles = 2
    /\ ticks = 0
    /\ Len(messages) = 2
    /\ messages[1].type = "warning"
    /\ messages[2].type = "info"

\* C4: the log never holds more than 10 entries.
C4_LogBounded == Len(messages) <= LOG_CAPACITY

\* The log is full and an entry has been evicted.
C4_Witness == Len(messages) = LOG_CAPACITY /\ now > LOG_CAPACITY

\* C5: every change of the log is an insertion at the front that keeps the
\* older entries in order behind it and evicts only the last entry of a full
\* log; so the entries are ordered newest first.
C5_NewestFirst ==
    /\ [][messages' # messages => \E type \in MessageType : Appended(type)]_vars
    /\ [](\A i, j \in DOMAIN messages :
             i < j => messages[i].timestamp > messages[j].timestamp)

\* A full log whose oldest entry is the 10th newest insertion.
C5_Witness ==
    /\ Len(messages) = LOG_CAPACITY
    /\ now > LOG_CAPACITY + 1
    /\ messages[1].timestamp = now
    /\ messages[LOG_CAPACITY].timestamp = now - (LOG_CAPACITY - 1)

\* C6: every step that lowers secondsRemaining is a tick taken with status
\* Running.
C6_DecreaseOnlyRunning ==
    [][timeLeft' < timeLeft => status = RUNNING /\ ticks' = ticks + 1]_vars

\* The countdown was paused after some ticks and is running again.
C6_Witness ==
    /\ status = RUNNING
    /\ toggles = 3
    /\ ticks > 0
    /\ timeLeft = INITIAL_TIME - ticks
    /\ timeLeft > 0

\* C7: Completed is terminal: from Completed the status changes only by a
\* reset, which gives Idle.
C7_CompletedTerminal ==
    [][status = COMPLETED =>
          \/ status' = COMPLETED
          \/ resetTimer /\ status' = IDLE]_vars

\* C8: when the 40-second interval fires with status other than Running, no
\* fetch is started and the log is left as it is.
C8_PollSkipsWhenNotRunning ==
    [][(\E key \in BOOLEAN : PollFire(key)) /\ status # RUNNING =>
          /\ messages' = messages
          /\ fetchCalls' = fetchCalls
          /\ netCalls' = netCalls
          /\ inflight' = inflight]_vars

\* The interval has fired while the countdown was paused.
C8_Witness ==
    /\ lastPoll = "skipped"
    /\ status = PAUSED
    /\ fetchCalls = 0
    /\ Len(messages) = 2

\* C9: whenever status has stayed Running for 40 consecutive ticked seconds,
\* the status-text fetcher has been invoked within them.
C9_PollEvery40Seconds == tickedRun <= POLL_SECONDS

\* C10: every fetch ends with a string and a Status entry: one that finds no
\* credential appends the no-credential fallback without calling the service,
\* and one whose service call ends, by an answer or by an error, appends the
\* answer or a fixed fallback while the view is mounted.
C10_FetchAlwaysYieldsText ==
    [][/\ fetchCalls' = fetchCalls + 1 /\ netCalls' = netCalls =>
             Appended("status") /\ messages'[1].text = NoKeyText
       /\ inflight' # inflight /\ inflight' \subseteq inflight /\ mounted =>
             /\ Appended("status")
             /\ messages'[1].text \in
                   {OfflineText, NominalText} \cup (ServiceTexts \ {""})]_vars

\* The service call failed and the log shows the offline fallback.
C10_Witness ==
    /\ Len(messages) >= 1
    /\ messages[1].type = "status"
    /\ messages[1].text = OfflineText
    /\ netCalls >= 1

\* C11: no step that starts a fetch or ends one changes the timer: status,
\* secondsRemaining and the countdown interval are the same before and after.
C11_FetchLeavesTimerAlone ==
    [][fetchCalls' # fetchCalls \/ inflight' # inflight =>
          /\ status' = status
          /\ timeLeft' = timeLeft
          /\ timerRef' = timerRef
          /\ tickIntervals' = tickIntervals]_vars

\* A service call failed, its fallback is the newest entry, and the timer is
\* as the toggle from Completed left it.
C11_Witness ==
    /\ status = RUNNING
    /\ timeLeft = 0
    /\ fetchCalls = 1
    /\ netCalls = 1
    /\ inflight = {}
    /\ messages[1].text = OfflineText

\* C12: a fetch started with no credential returns the no-credential fallback
\* and makes no call to the service.
C12_NoKeyNoServiceCall ==
    [][PollFire(FALSE) /\ fetchCalls' = fetchCalls + 1 =>
          /\ netCalls' = netCalls
          /\ inflight' = inflight
          /\ Appended("status")
          /\ messages'[1].text = NoKeyText]_vars

\* Two fetches were started without a credential; the service was never called.
C12_Witness ==
    /\ fetchCalls = 2
    /\ netCalls = 0
    /\ inflight = {}
    /\ messages[1].text = NoKeyText
    /\ messages[2].text = NoKeyText

C16_RecompletesWithinOneTick ==
    status = RUNNING /\ timeLeft = 0 => pollAge < 1

\* C16 amended: a toggle from Completed gives Running with secondsRemaining
\* still 0 and starts no countdown interval, and from then on the status
\* stays Running and secondsRemaining 0 until the next click.
C16_StaysRunningAtZero ==
    /\ [][status = COMPLETED /\ toggleTimer =>
             status' = RUNNING /\ timeLeft' = 0 /\ tickIntervals' = 0]_vars
    /\ [][status = RUNNING /\ timeLeft = 0 /\ clicks' = clicks =>
             status' = RUNNING /\ timeLeft' = 0 /\ ticks' = ticks]_vars

\* Forty seconds after the toggle from Completed the status is still Running.
C16_Witness ==
    /\ status = RUNNING
    /\ timeLeft = 0
    /\ alerts = 1
    /\ pollAge = POLL_SECONDS

\* C17: at most one 1-second interval runs at any moment, and none runs
\* while the status is not Running or after teardown.
C17_OneTickSource ==
    /\ tickIntervals \in {0, 1}
    /\ status # RUNNING => tickIntervals = 0
    /\ ~mounted => tickIntervals = 0
    /\ tickIntervals = 1 <=> timerRef = "live"

\* The interval was cleared by a pause, started again, and has ticked since.
C17_Witness ==
    /\ tickIntervals = 1
    /\ toggles = 3
    /\ tickedRun > 0
    /\ clicks = 3

\* C19: secondsRemaining stays within 0..300, and where it is 0 the tick
\* updater leaves it at 0.
C19_TimeWithinRange ==
    /\ timeLeft \in 0..INITIAL_TIME
    /\ timeLeft = 0 => TickTime(timeLeft) = 0

\* The countdown, paused and resumed on the way, has reached 0 by its last tick.
C19_Witness ==
    /\ timeLeft = 0
    /\ status = COMPLETED
    /\ ticks = INITIAL_TIME
    /\ clicks = 3

\* C18: from Running with k > 0 seconds remaining and the component mounted,
\* the status becomes Completed with 0 remaining unless a click (which leaves
\* Running for Paused or Idle) or the teardown intervenes; every tick on the
\* way lowers secondsRemaining by exactly 1 and only the tick that reaches 0
\* completes, so that takes exactly k ticks.
C18_CountdownCompletes ==
    /\ (status = RUNNING /\ timeLeft > 0 /\ mounted)
          ~> (\/ status = COMPLETED /\ timeLeft = 0
              \/ status \in {PAUSED, IDLE}
              \/ ~mounted)
    /\ [][ticks' = ticks + 1 =>
             /\ timeLeft' = timeLeft - 1
             /\ status' = IF timeLeft' = 0 THEN COMPLETED ELSE RUNNING]_vars
    /\ [][status = RUNNING /\ status' # RUNNING =>
             \/ ticks' = ticks + 1
             \/ clicks' = clicks + 1]_vars

\* Paused and resumed once, the countdown has run to completion.
C18_Witness ==
    /\ status = COMPLETED
    /\ timeLeft = 0
    /\ toggles = 3
    /\ alerts = 1
    /\ mounted

\* C20: a poll that fetches while an earlier request is pending starts a
\* second request next to it and cancels none; each reply that arrives on
\* the mounted view, whichever request it answers, appends its own status
\* entry above every entry already in the log, so that the replies stand in
\* the log in their order of arrival.
C20_OverlappingFetches ==
    /\ [][netCalls' = netCalls + 1 =>
             /\ fetchCalls' \notin inflight
             /\ inflight' = inflight \cup {fetchCalls'}]_vars
    /\ [][mounted /\ inflight' # inflight /\ inflight' \subseteq inflight =>
             /\ Cardinality(inflight \ inflight') = 1
             /\ Appended("status")
             /\ \A i \in 2..Len(messages') :
                   messages'[i].timestamp < messages'[1].timestamp]_vars

\* Two requests were in flight together and the one started second has been
\* answered first: its entry heads the log while the first is still pending.
C20_Witness ==
    /\ mounted
    /\ fetchCalls = 2
    /\ netCalls = 2
    /\ inflight = {1}
    /\ messages[1].type = "status"

\* C14: once the scene is torn down no frame request is pending, onResize is
\* no longer registered and the renderer is released, and from then on
\* neither animate nor onResize runs, whatever ran before the teardown.
C14_SceneTornDown ==
    /\ [](~mounted =>
             /\ pendingFrames = {}
             /\ ~resizeListener
             /\ ~rendererLive)
    /\ [][~mounted =>
             /\ frames' = frames
             /\ resizes' = resizes
             /\ viewport' = viewport]_vars

\* Torn down after several frames and resizes.
C14_Witness ==
    /\ ~mounted
    /\ frames = MaxFrames
    /\ resizes = MaxResizes
    /\ viewport = "large"

\* C15: formatOrbitalPeriod picks the unit by the period alone: h below 24
\* hours, d from 24 hours to below 8760 hours, yr from 8760 hours on; so h
\* for 7.654, d for 655.72 and for 2111.28.
C15_UnitByPeriod ==
    fmtOutput # NoOutput =>
       /\ fmtOutput.unit = IF fmtInput < 24 * 1000 THEN "h"
                           ELSE IF fmtInput < 8760 * 1000 THEN "d"
                           ELSE "yr"
       /\ fmtInput = 7654 => fmtOutput.unit = "h"
       /\ fmtInput \in {655720, 2111280} => fmtOutput.unit = "d"

\* A period of exactly 8760 hours has been formatted: 1.00yr.
C15_Witness ==
    /\ fmtInput = 8760 * 1000
    /\ fmtOutput = [value |-> 100, unit |-> "yr"]

\* C25: in every reachable state, status Idle goes with 300 seconds
\* remaining and status Completed with 0.
C25_IdleFullCompletedZero ==
    /\ status = IDLE => timeLeft = INITIAL_TIME
    /\ status = COMPLETED => timeLeft = 0

\* A countdown that ran to completion has been reset.
C25_Witness ==
    /\ status = IDLE
    /\ timeLeft = INITIAL_TIME
    /\ clicks = 2
    /\ \E i \in DOMAIN messages : messages[i].type = "alert"

\* C26: a toggle never changes secondsRemaining; while Paused nothing but a
\* click changes it; and the toggle that resumes sets Running with the value
\* held when paused, the tick source starting again if that value is above 0.
C26_ToggleKeepsTime ==
    /\ [][toggleTimer => timeLeft' = timeLeft]_vars
    /\ [][status = PAUSED /\ clicks' = clicks =>
             status' = PAUSED /\ timeLeft' = timeLeft]_vars
    /\ [][status = PAUSED /\ toggleTimer =>
             /\ status' = RUNNING
             /\ tickIntervals' = IF timeLeft > 0 THEN 1 ELSE 0]_vars

\* Ticks before the pause and after the resume: the count went on from where
\* it was paused.
C26_Witness ==
    /\ status = RUNNING
    /\ toggles = 3
    /\ tickedRun > 0
    /\ ticks > tickedRun
    /\ timeLeft = INITIAL_TIME - ticks

\* C23: every change of status or of secondsRemaining leaves a poll timer
\* that has its full 40 seconds to run; so a poll timer fires, and a fetch
\* starts, only when status and secondsRemaining have both stayed as they
\* are for 40 seconds.
C23_PollRestartsOnChange ==
    /\ [][status' # status \/ timeLeft' # timeLeft =>
             pollLive' /\ pollAge' = 0]_vars
    /\ [][(\E key \in BOOLEAN : PollFire(key)) => quiet = POLL_SECONDS]_vars
    /\ [][fetchCalls' # fetchCalls => quiet = POLL_SECONDS]_vars

\* The countdown ran, was paused, and 40 seconds later the poll timer fired.
C23_Witness ==
    /\ status = PAUSED
    /\ ticks > 0
    /\ timeLeft = INITIAL_TIME - ticks
    /\ lastPoll = "skipped"
    /\ quiet = POLL_SECONDS
    /\ pollAge = 0

\* C24: a fetch starts only while the status is Running, and its reply,
\* arriving on the mounted view, appends exactly one status entry and
\* leaves the status alone, whatever the status is by then.
C24_ReplyLoggedWhateverStatus ==
    /\ [][fetchCalls' # fetchCalls => status = RUNNING]_vars
    /\ [][mounted /\ inflight' # inflight /\ inflight' \subseteq inflight =>
             /\ Cardinality(inflight \ inflight') = 1
             /\ Appended("status")
             /\ status' = status]_vars

\* The request pending since the second start is answered after the reset:
\* its entry lies above the entry of the reset, the status being Idle.
C24_Witness ==
    /\ status = IDLE
    /\ mounted
    /\ netCalls = 1
    /\ inflight = {}
    /\ messages[1].type = "status"
    /\ messages[2].text = ResetText

\* C22: every frame advances t by the running step when the status is
\* RUNNING at that frame and by the idle step otherwise, so t grows on every
\* frame and never shrinks; a change of the status changes the flag in the
\* same step and leaves t, the frame count and the pending request alone.
C22_FlagReadEachFrame ==
    /\ [][frames' # frames =>
             /\ frames' = frames + 1
             /\ t' = F64Add(t, IF status = RUNNING THEN ANIMATION_SPEED_RUNNING
                                                   ELSE ANIMATION_SPEED_IDLE)
             /\ F64Less(t, t')]_vars
    /\ [][~F64Less(t', t)]_vars
    /\ [][status' # status =>
             /\ isRunningRef' = (status' = RUNNING)
             /\ t' = t
             /\ frames' = frames
             /\ pendingFrames' = pendingFrames
             /\ animId' = animId]_vars

\* After the frame of the mount, one frame ran while the timer was running
\* and one more after it was paused.
C22_Witness ==
    /\ status = PAUSED
    /\ frames = 3
    /\ t = F64Add(F64Add(ANIMATION_SPEED_IDLE, ANIMATION_SPEED_RUNNING),
                  ANIMATION_SPEED_IDLE)

\* The number a binary64 value stands for, as n * 2^e.
Exact(x) == [n |-> x.m, e |-> x.e]

\* |a - b| for numbers n * 2^e.
ExactDistance(a, b) ==
    LET e == Min(a.e, b.e)
        an == ShiftLeftBits(a.n, a.e - e)
        bn == ShiftLeftBits(b.n, b.e - e)
    IN [n |-> IF NatLess(an, bn) THEN NatSub(bn, an) ELSE NatSub(an, bn), e |-> e]

\* The number d is at most k halves of a unit in the last place of x.
WithinHalfUlps(d, k, x) ==
    LET e == Min(d.e, x.e - 1)
    IN ~NatLess(ShiftLeftBits(NatOf(k), x.e - 1 - e), ShiftLeftBits(d.n, d.e - e))

\* The product of the running flag's step and a body's speed, for the
\* status of this frame.
StepOf(i) == F64Mul(Speeds[i], IF status = RUNNING THEN ANIMATION_SPEED_RUNNING
                                                  ELSE ANIMATION_SPEED_IDLE)

\* For either step, a body of half the period of a body of the table gains
\* exactly twice what that body gains.
HalfPeriodDoubles ==
    \A i \in DOMAIN CELESTIAL_BODIES : \A flag \in BOOLEAN :
        LET half == F64Div(CELESTIAL_BODIES[i], F64OfInt(2))
            full == F64Mul(Speeds[i], FrameDelta(flag))
        IN F64Mul(OrbitalSpeed(half), FrameDelta(flag)) = F64Add(full, full)

\* Each speed is the scale over the period: times the period it gives the
\* scale back, up to the three roundings in between.
SpeedIsScaleOverPeriod ==
    \A i \in DOMAIN CELESTIAL_BODIES :
        WithinHalfUlps(ExactDistance(Exact(F64Mul(Speeds[i], CELESTIAL_BODIES[i])),
                                     Exact(ORBITAL_SPEED_SCALE)),
                       4, ORBITAL_SPEED_SCALE)

\* C21 as stated: on every frame each angle grows by exactly the product
\* (1 / orbitalPeriodHours) * SCALE * delta, half the period gains exactly
\* twice, and each angle always equals (1 / orbitalPeriodHours) * SCALE * t.
C21_AnglesExact ==
    /\ [][frames' # frames =>
             \A i \in DOMAIN rotationY :
                 ExactDistance(Exact(rotationY'[i]),
                               ExactSum(rotationY[i], StepOf(i))).n = <<>>]_vars
    /\ HalfPeriodDoubles
    /\ [](\A i \in DOMAIN rotationY : rotationY[i] = F64Mul(Speeds[i], t))

\* C21, amended: on every frame each body's angle becomes the binary64
\* number nearest to its old value plus the product (1 / orbitalPeriodHours)
\* * SCALE * delta, which makes it larger; no other step changes an angle;
\* half the period gains exactly twice; and each angle equals
\* (1 / orbitalPeriodHours) * SCALE * t up to the rounding gathered so far,
\* four units in the last place for each frame run.
C21_AnglesUpToRounding ==
    /\ [][frames' # frames =>
             \A i \in DOMAIN rotationY :
                 /\ WithinHalfUlps(ExactDistance(Exact(rotationY'[i]),
                                                 ExactSum(rotationY[i], StepOf(i))),
                                   1, rotationY'[i])
                 /\ F64Less(rotationY[i], rotationY'[i])]_vars
    /\ [][frames' = frames => rotationY' = rotationY]_vars
    /\ HalfPeriodDoubles
    /\ SpeedIsScaleOverPeriod
    /\ [](\A i \in DOMAIN rotationY :
             WithinHalfUlps(ExactDistance(Exact(rotationY[i]),
                                          Exact(F64Mul(Speeds[i], t))),
                            8 * frames, rotationY[i]))

\* Three idle frames have run and the first body's angle is no longer the
\* product of its speed and t.
C21_Witness ==
    /\ frames = 3
    /\ clicks = 0
    /\ rotationY[1] # F64Mul(Speeds[1], t)

====
